---- MODULE Spec2Model ----
(***************************************************************************)
(* Model of grabcut.py: the interactive GrabCut session of class GrabCut.  *)
(* One action is one delivered event (a pointer event handled by the       *)
(* installed mouse callback, or a key returned by cv2.waitKey) together    *)
(* with everything run() does before it waits again.                       *)
(*                                                                         *)
(* cv2.grabCut, cv2.circle and cv2.imwrite are library calls.  They are    *)
(* modelled by their documented effect on the arrays passed to them; the   *)
(* labelling grabCut chooses for the probable cells depends on the pixel   *)
(* colours and is left nondeterministic.                                   *)
(*                                                                         *)
(* self.image (the annotated overlay shown in window "Input") is written   *)
(* by the handlers and only ever passed to cv2.imshow; it is read by no    *)
(* decision of the program and is left out, as are the imshow calls.       *)
(***************************************************************************)
EXTENDS Integers, Sequences, FiniteSets, TLC

\* ---------------------------------------------------------------- bounds
\* Image width and height in pixels (the array cv2.imread returns).
ImgW == 2
ImgH == 1
\* At most this many cv2.grabCut calls and cv2.imwrite calls per session.
MaxCalls == 2
MaxSaves == 1

\* ------------------------------------------------------ program constants
GC_BGD == 0
GC_FGD == 1
GC_PR_BGD == GC_FGD + 1
GC_PR_FGD == 3
Radius == 3
KEY_ESC == 27
KEY_ENTER == 13
KEY_SPACE == 32
KEY_S == 115
\* Keys the loops give no meaning to ("a").
OtherKeys == {97}
Keys == {KEY_ESC, KEY_ENTER, KEY_SPACE, KEY_S} \cup OtherKeys

Labels == {GC_BGD, GC_FGD, GC_PR_BGD, GC_PR_FGD}
Cells == (0 .. ImgW - 1) \X (0 .. ImgH - 1)
None == <<>>
\* The value of the history variables where nothing was stamped.
NoStamp == 0 - 1

EVENT_LBUTTONDOWN == "EVENT_LBUTTONDOWN"
EVENT_MOUSEMOVE == "EVENT_MOUSEMOVE"
EVENT_LBUTTONUP == "EVENT_LBUTTONUP"
MouseEvents == {EVENT_LBUTTONDOWN, EVENT_MOUSEMOVE, EVENT_LBUTTONUP}

\* Pointer positions delivered while the rectangle is drawn: every corner a
\* rectangle lying inside the image can have, and the two corners of the
\* rectangle that covers the first column of the image.
RectPoints == (0 .. ImgW) \X (0 .. ImgH)
FewRectPoints == {<<0, 0>>, <<1, ImgH>>}
\* Pointer positions delivered while scribbling: two outside the image, at the
\* brush radius from its left and right edge, whose discs clip to disjoint
\* parts of the image, and one inside the image.
MarkerPoints == {<<0 - Radius, 0>>, <<ImgW - 1 + Radius, 0>>}
FewMarkerPoints == {<<0, 0>>}

\* Output paths given on the command line (tuples of characters).
PathPng == <<"o", ".", "p", "n", "g">>
PathJpg == <<"o", "u", "t", ".", "j", "p", "g">>
PathTxt == <<"o", "u", "t", ".", "t", "x", "t">>
PathNoDot == <<"p", "n", "g">>
OutputPaths == {PathPng, PathJpg, PathTxt, PathNoDot}
ExtPng == <<".", "p", "n", "g">>
ExtJpg == <<".", "j", "p", "g">>
DefaultOutput == <<"o", "u", "t", "p", "u", "t", ".", "j", "p", "g">>

VARIABLES
  pc,                       \* where run() is: "PhaseA", "PhaseB", "done", "crashed"
  original_image,           \* self.original_image
  segmented_image,          \* self.segmented_image (the preview)
  mask,                     \* self.mask
  output_path,              \* self.output_path
  x, y, w, h,               \* self.x, self.y, self.w, self.h
  rect,                     \* self.rect
  drawing,                  \* self.drawing
  background,               \* self.background
  segmentation_initialized, \* self.segmentation_initialized
  event,                    \* the event being handled: the callback's (event, x, y) or waitKey's key
  grabCut_calls,            \* the cv2.grabCut calls made so far
  imwrite_calls,            \* how many cv2.imwrite calls were made so far
  last_write,               \* the last cv2.imwrite call and the message printed after it
  pointer_ups,              \* history: a pointer-up was delivered to draw_rectangle
  stamps_pending,           \* history: draw_markers stamped the mask after the preview was last computed
  stroke_marker,            \* history: the marker of the pointer-down that began the stroke being painted
  stamped                   \* history: per cell, the marker last stamped on it since the last cv2.grabCut call

vars == <<pc, original_image, segmented_image, mask, output_path, x, y, w, h, rect,
          drawing, background, segmentation_initialized, event, grabCut_calls,
          imwrite_calls, last_write, pointer_ups, stamps_pending, stroke_marker, stamped>>

\* ------------------------------------------------------------- helpers
Abs(n) == IF n < 0 THEN 0 - n ELSE n
Min(a, b) == IF a < b THEN a ELSE b
Max(a, b) == IF a > b THEN a ELSE b

\* str.endswith
endswith(s, suffix) ==
  /\ Len(s) >= Len(suffix)
  /\ SubSeq(s, Len(s) - Len(suffix) + 1, Len(s)) = suffix

\* cv2.imread: the decoded image, every pixel a distinct non-zero colour.
imread == [c \in Cells |-> 1 + c[1] + ImgW * c[2]]

\* np.zeros / np.zeros_like
zeros == [c \in Cells |-> 0]

\* Mutant of circle: the diameter is used as the radius.
circle_diameter(img, cx, cy, radius, value) ==
  [c \in Cells |->
     IF (c[1] - cx) * (c[1] - cx) + (c[2] - cy) * (c[2] - cy) <= (2 * radius) * (2 * radius)
     THEN value ELSE img[c]]

\* cv2.circle(img, (cx, cy), 3, value, -1): the filled disc, clipped to the array.
circle(img, cx, cy, radius, value) ==
  [c \in Cells |->
     IF (c[1] - cx) * (c[1] - cx) + (c[2] - cy) * (c[2] - cy) <= radius * radius
     THEN value ELSE img[c]]

\* np.where((self.mask==1) + (self.mask==3), 255, 0)
np_where(m) == [c \in Cells |-> IF m[c] = GC_FGD \/ m[c] = GC_PR_FGD THEN 255 ELSE 0]

\* cv2.bitwise_and(img, img, mask=sel)
bitwise_and(img, sel) == [c \in Cells |-> IF sel[c] # 0 THEN img[c] ELSE 0]

\* ------------------------------------------------------------ cv2.grabCut
\* GC_INIT_WITH_RECT: the rectangle is clipped to the image, every cell outside
\* it becomes GC_BGD and every cell inside it GC_PR_FGD.
ClippedRect(r) ==
  LET rx == Max(0, r[1])
      ry == Max(0, r[2])
  IN  <<rx, ry, Min(r[3], ImgW - rx), Min(r[4], ImgH - ry)>>

RectCells(r) ==
  LET q == ClippedRect(r)
  IN  {c \in Cells : /\ q[1] <= c[1] /\ c[1] < q[1] + q[3]
                     /\ q[2] <= c[2] /\ c[2] < q[2] + q[4]}

initMaskWithRect(r) == [c \in Cells |-> IF c \in RectCells(r) THEN GC_PR_FGD ELSE GC_BGD]

\* The mask the cut starts from.
GrabCutStart(m, r, initialized) == IF initialized THEN m ELSE initMaskWithRect(r)

\* The engine needs colour samples of both classes; without them it raises.
GrabCutFails(m) ==
  \/ {c \in Cells : m[c] \in {GC_BGD, GC_PR_BGD}} = {}
  \/ {c \in Cells : m[c] \in {GC_FGD, GC_PR_FGD}} = {}

\* One iteration of the cut: definite cells keep their label, every probable
\* cell becomes GC_PR_BGD or GC_PR_FGD.
GrabCutResults(m) ==
  LET probable == {c \in Cells : m[c] \in {GC_PR_BGD, GC_PR_FGD}}
  IN  {[c \in Cells |-> IF c \in probable
                        THEN (IF c \in fg THEN GC_PR_FGD ELSE GC_PR_BGD)
                        ELSE m[c]] : fg \in SUBSET probable}

\* --------------------------------------------------------- GrabCut.__init__
InitWith(paths) ==
  /\ pc = "PhaseA"
  /\ original_image = imread
  /\ segmented_image = zeros
  /\ mask = zeros
  /\ output_path \in paths
  /\ x = 0 /\ y = 0 /\ w = 0 /\ h = 0
  /\ rect = None
  /\ drawing = FALSE
  /\ background = TRUE
  /\ segmentation_initialized = FALSE
  /\ event = None
  /\ grabCut_calls = <<>>
  /\ imwrite_calls = 0
  /\ last_write = None
  /\ pointer_ups = FALSE
  /\ stamps_pending = FALSE
  /\ stroke_marker = NoStamp
  /\ stamped = [c \in Cells |-> NoStamp]

\* ---------------------------------------------------- GrabCut.draw_rectangle
\* Mutant of draw_rectangle: the width and height keep their sign.
draw_rectangle_signed(e, px, py) ==
  /\ e \in MouseEvents
  /\ \/ /\ e = EVENT_LBUTTONDOWN
        /\ drawing' = TRUE
        /\ x' = px
        /\ y' = py
        /\ UNCHANGED <<w, h>>
     \/ /\ e = EVENT_MOUSEMOVE
        /\ UNCHANGED <<drawing, x, y, w, h>>
     \/ /\ e = EVENT_LBUTTONUP
        /\ drawing' = FALSE
        /\ w' = px - x
        /\ h' = py - y
        /\ x' = Min(x, px)
        /\ y' = Min(y, py)

\* Mutant of draw_rectangle: the corner is not moved to the top left.
draw_rectangle_anchor(e, px, py) ==
  /\ e \in MouseEvents
  /\ \/ /\ e = EVENT_LBUTTONDOWN
        /\ drawing' = TRUE
        /\ x' = px
        /\ y' = py
        /\ UNCHANGED <<w, h>>
     \/ /\ e = EVENT_MOUSEMOVE
        /\ UNCHANGED <<drawing, x, y, w, h>>
     \/ /\ e = EVENT_LBUTTONUP
        /\ drawing' = FALSE
        /\ w' = Abs(x - px)
        /\ h' = Abs(y - py)
        /\ UNCHANGED <<x, y>>

draw_rectangle(e, px, py) ==
  /\ e \in MouseEvents
  /\ \/ /\ e = EVENT_LBUTTONDOWN
        /\ drawing' = TRUE
        /\ x' = px
        /\ y' = py
        /\ UNCHANGED <<w, h>>
     \/ /\ e = EVENT_MOUSEMOVE
        /\ UNCHANGED <<drawing, x, y, w, h>>
     \/ /\ e = EVENT_LBUTTONUP
        /\ drawing' = FALSE
        /\ w' = Abs(x - px)
        /\ h' = Abs(y - py)
        /\ x' = Min(x, px)
        /\ y' = Min(y, py)

\* ------------------------------------------------------ GrabCut.draw_markers
\* Mutant of marker: the foreground brush stamps its overlay colour.
marker_color == IF background THEN GC_BGD ELSE 255

\* Mutant of marker: the two brushes are exchanged.
marker_swapped == IF background THEN GC_FGD ELSE GC_BGD

\* Lines 55-60: the label the brush stamps.
marker == IF background THEN GC_BGD ELSE GC_FGD

\* Mutant of draw_markers: a pointer-move stamps whether or not a stroke is
\* in progress.
draw_markers_move_always(e, px, py) ==
  /\ e \in MouseEvents
  /\ \/ /\ e = EVENT_LBUTTONDOWN
        /\ drawing' = TRUE
        /\ mask' = circle(mask, px, py, Radius, marker)
     \/ /\ e = EVENT_MOUSEMOVE
        /\ mask' = circle(mask, px, py, Radius, marker)
        /\ UNCHANGED drawing
     \/ /\ e = EVENT_LBUTTONUP
        /\ IF drawing
           THEN /\ drawing' = FALSE
                /\ mask' = circle(mask, px, py, Radius, marker)
           ELSE UNCHANGED <<drawing, mask>>

\* Mutant of draw_markers: the stamps of a stroke keep the marker of its
\* pointer-down.
draw_markers_stroke_label(e, px, py) ==
  /\ e \in MouseEvents
  /\ \/ /\ e = EVENT_LBUTTONDOWN
        /\ drawing' = TRUE
        /\ mask' = circle(mask, px, py, Radius, marker)
     \/ /\ e = EVENT_MOUSEMOVE
        /\ IF drawing
           THEN mask' = circle(mask, px, py, Radius, stroke_marker)
           ELSE mask' = mask
        /\ UNCHANGED drawing
     \/ /\ e = EVENT_LBUTTONUP
        /\ IF drawing
           THEN /\ drawing' = FALSE
                /\ mask' = circle(mask, px, py, Radius, stroke_marker)
           ELSE UNCHANGED <<drawing, mask>>

\* Lines 54-75: the mouse callback of the second loop.
draw_markers(e, px, py) ==
  /\ e \in MouseEvents
  /\ \/ /\ e = EVENT_LBUTTONDOWN
        /\ drawing' = TRUE
        /\ mask' = circle(mask, px, py, Radius, marker)
     \/ /\ e = EVENT_MOUSEMOVE
        /\ IF drawing
           THEN mask' = circle(mask, px, py, Radius, marker)
           ELSE mask' = mask
        /\ UNCHANGED drawing
     \/ /\ e = EVENT_LBUTTONUP
        /\ IF drawing
           THEN /\ drawing' = FALSE
                /\ mask' = circle(mask, px, py, Radius, marker)
           ELSE UNCHANGED <<drawing, mask>>

\* ---------------------------------------------------------- GrabCut.segment
\* Mutant of GrabCutMode: every call initialises from the rectangle.
GrabCutMode_always_rect(initialized) == "GC_INIT_WITH_RECT"

\* The mode segment() passes to cv2.grabCut.
GrabCutMode(initialized) == IF initialized THEN "GC_INIT_WITH_MASK" ELSE "GC_INIT_WITH_RECT"

\* The outcomes of segment(initialized) on mask m and rectangle r: the call
\* either raises cv2.error, leaving in the array what the initialisation
\* wrote, or returns with the array relabelled.
segment(m, r, initialized) ==
  LET start == GrabCutStart(m, r, GrabCutMode(initialized) = "GC_INIT_WITH_MASK")
  IN  IF GrabCutFails(start)
      THEN {[raised |-> TRUE, mask |-> start]}
      ELSE {[raised |-> FALSE, mask |-> res] : res \in GrabCutResults(start)}

\* The record of one cv2.grabCut call.
GrabCutCall(r, initialized, raised) ==
  [initialized |-> initialized, mode |-> GrabCutMode(initialized), rect |-> r,
   raised |-> raised]

\* Mutant of composite: only the definite foreground is kept.
composite_definite_only(img, m) ==
  [c \in Cells |-> IF m[c] = GC_FGD THEN img[c] ELSE 0]

\* Lines 117-118 and 149-150: the preview computed from the mask.
composite(img, m) == bitwise_and(img, np_where(m))

\* Mutant of OutputTarget: .jpg is not recognised.
OutputTarget_png_only(path) ==
  IF endswith(path, ExtPng) THEN path ELSE DefaultOutput

\* Lines 142-145: the file the save key writes to.
OutputTarget(path) ==
  IF endswith(path, ExtPng) \/ endswith(path, ExtJpg) THEN path ELSE DefaultOutput

\* ------------------------------------------------------------- GrabCut.run
\* A key returned by cv2.waitKey(0), lines 105 and 127.
KeyEvent(k) == <<"key", k>>

\* A pointer event delivered while run() waits in its first loop (line 105):
\* the callback installed at line 91 handles it.
MouseA(e, px, py) ==
  /\ pc = "PhaseA"
  /\ event' = <<e, px, py>>
  /\ draw_rectangle(e, px, py)
  /\ pointer_ups' = (pointer_ups \/ e = EVENT_LBUTTONUP)
  /\ UNCHANGED <<pc, original_image, segmented_image, mask, output_path, rect, background,
                 segmentation_initialized, grabCut_calls, imwrite_calls, last_write,
                 stamps_pending, stroke_marker, stamped>>

\* Mutant of MouseB: the callback of the first loop stays installed (line 121
\* missing).
MouseB_rectangle_callback(e, px, py) ==
  /\ pc = "PhaseB"
  /\ event' = <<e, px, py>>
  /\ draw_rectangle(e, px, py)
  /\ UNCHANGED <<pc, original_image, segmented_image, mask, output_path, rect, background,
                 segmentation_initialized, grabCut_calls, imwrite_calls, last_write,
                 pointer_ups, stamps_pending, stroke_marker, stamped>>

\* A pointer event delivered while run() waits in its second loop (line 127):
\* the callback installed at line 121 handles it.
MouseB(e, px, py) ==
  /\ pc = "PhaseB"
  /\ event' = <<e, px, py>>
  /\ draw_markers(e, px, py)
  /\ stamps_pending' = (stamps_pending \/ e = EVENT_LBUTTONDOWN \/ drawing)
  /\ stroke_marker' = IF e = EVENT_LBUTTONDOWN THEN marker
                      ELSE IF e = EVENT_LBUTTONUP THEN NoStamp
                      ELSE stroke_marker
  /\ stamped' = IF e = EVENT_LBUTTONDOWN \/ drawing
                THEN circle(stamped, px, py, Radius, marker)
                ELSE stamped
  /\ UNCHANGED <<pc, original_image, segmented_image, output_path, x, y, w, h, rect,
                 background, segmentation_initialized, grabCut_calls, imwrite_calls,
                 last_write, pointer_ups>>

\* Lines 104-107: a key the first loop ignores.
IgnoreKeyA(k) ==
  /\ pc = "PhaseA"
  /\ k \notin {KEY_ESC, KEY_ENTER}
  /\ event' = KeyEvent(k)
  /\ UNCHANGED <<pc, original_image, segmented_image, mask, output_path, x, y, w, h, rect,
                 drawing, background, segmentation_initialized, grabCut_calls,
                 imwrite_calls, last_write, pointer_ups, stroke_marker, stamped, stamps_pending>>

\* Mutant of Abort: Esc in the second loop saves the preview before run() returns.
Abort_saves ==
  /\ pc \in {"PhaseA", "PhaseB"}
  /\ event' = KeyEvent(KEY_ESC)
  /\ pc' = "done"
  /\ IF pc = "PhaseB"
     THEN /\ imwrite_calls' = imwrite_calls + 1
          /\ last_write' = [path |-> OutputTarget(output_path), image |-> segmented_image,
                            ok |-> TRUE, printed |-> "saved"]
     ELSE UNCHANGED <<imwrite_calls, last_write>>
  /\ UNCHANGED <<original_image, segmented_image, mask, output_path, x, y, w, h, rect,
                 drawing, background, segmentation_initialized, grabCut_calls,
                 pointer_ups, stroke_marker, stamped, stamps_pending>>

\* Mutant of Abort: Esc in the first loop is not told from Enter after the
\* loop (line 109 missing), so the segmentation runs.
Abort_falls_through ==
  /\ pc \in {"PhaseA", "PhaseB"}
  /\ event' = KeyEvent(KEY_ESC)
  /\ IF pc = "PhaseA"
     THEN /\ rect' = <<x, y, w, h>>
          /\ drawing' = FALSE
          /\ segmentation_initialized' = TRUE
          /\ \E out \in segment(mask, rect', FALSE) :
               /\ grabCut_calls' = Append(grabCut_calls, GrabCutCall(rect', FALSE, out.raised))
               /\ mask' = out.mask
               /\ IF out.raised
                  THEN pc' = "crashed" /\ UNCHANGED segmented_image
                  ELSE pc' = "PhaseB" /\ segmented_image' = composite(original_image, mask')
     ELSE /\ pc' = "done"
          /\ UNCHANGED <<rect, drawing, segmentation_initialized, grabCut_calls, mask,
                         segmented_image>>
  /\ UNCHANGED <<original_image, output_path, x, y, w, h, background, imwrite_calls,
                 last_write, pointer_ups, stroke_marker, stamped, stamps_pending>>

\* Lines 106-109 and 129-130: Esc leaves the loop and run() returns.
Abort ==
  /\ pc \in {"PhaseA", "PhaseB"}
  /\ event' = KeyEvent(KEY_ESC)
  /\ pc' = "done"
  /\ UNCHANGED <<original_image, segmented_image, mask, output_path, x, y, w, h, rect,
                 drawing, background, segmentation_initialized, grabCut_calls,
                 imwrite_calls, last_write, pointer_ups, stroke_marker, stamped, stamps_pending>>

\* Mutant of ConfirmRect: the drawing flag is not cleared (line 111 missing).
ConfirmRect_keeps_drawing ==
  /\ pc = "PhaseA"
  /\ event' = KeyEvent(KEY_ENTER)
  /\ rect' = <<x, y, w, h>>
  /\ segmentation_initialized' = TRUE
  /\ \E out \in segment(mask, rect', FALSE) :
       /\ grabCut_calls' = Append(grabCut_calls, GrabCutCall(rect', FALSE, out.raised))
       /\ mask' = out.mask
       /\ IF out.raised
          THEN pc' = "crashed" /\ UNCHANGED <<segmented_image, stamps_pending>>
          ELSE /\ pc' = "PhaseB"
               /\ segmented_image' = composite(original_image, mask')
               /\ stamps_pending' = FALSE
  /\ UNCHANGED <<original_image, output_path, x, y, w, h, drawing, background,
                 imwrite_calls, last_write, pointer_ups, stroke_marker, stamped>>

\* Lines 106-121: Enter leaves the first loop; the rectangle is taken, the
\* first segmentation runs and the preview is computed.  cv2.error raised by
\* the engine is caught nowhere and ends run().
ConfirmRect ==
  /\ pc = "PhaseA"
  /\ event' = KeyEvent(KEY_ENTER)
  /\ drawing' = FALSE
  /\ rect' = <<x, y, w, h>>
  /\ IF ~segmentation_initialized
     THEN /\ segmentation_initialized' = TRUE
          /\ \E out \in segment(mask, rect', FALSE) :
               /\ grabCut_calls' = Append(grabCut_calls, GrabCutCall(rect', FALSE, out.raised))
               /\ mask' = out.mask
               /\ IF out.raised
                  THEN pc' = "crashed" /\ UNCHANGED <<segmented_image, stamps_pending>>
                  ELSE /\ pc' = "PhaseB"
                       /\ segmented_image' = composite(original_image, mask')
                       /\ stamps_pending' = FALSE
     ELSE /\ pc' = "PhaseB"
          /\ UNCHANGED <<segmentation_initialized, grabCut_calls, mask, segmented_image,
                         stamps_pending>>
  /\ UNCHANGED <<original_image, output_path, x, y, w, h, background, imwrite_calls,
                 last_write, pointer_ups, stroke_marker, stamped>>

\* Lines 131-138: Space switches the brush; the loop continues without
\* recomputing the preview.
ToggleBrush ==
  /\ pc = "PhaseB"
  /\ event' = KeyEvent(KEY_SPACE)
  /\ background' = ~background
  /\ UNCHANGED <<pc, original_image, segmented_image, mask, output_path, x, y, w, h, rect,
                 drawing, segmentation_initialized, grabCut_calls, imwrite_calls,
                 last_write, pointer_ups, stroke_marker, stamped, stamps_pending>>

\* Lines 139-140 and 149-150: Enter runs the segmentation again, then the
\* preview is recomputed.  cv2.error ends run() here too.
ConfirmScribbles ==
  /\ pc = "PhaseB"
  /\ Len(grabCut_calls) < MaxCalls
  /\ event' = KeyEvent(KEY_ENTER)
  /\ \E out \in segment(mask, rect, segmentation_initialized) :
       /\ grabCut_calls' =
            Append(grabCut_calls, GrabCutCall(rect, segmentation_initialized, out.raised))
       /\ mask' = out.mask
       /\ IF out.raised
          THEN pc' = "crashed" /\ UNCHANGED <<segmented_image, stamps_pending>>
          ELSE /\ pc' = "PhaseB"
               /\ segmented_image' = composite(original_image, mask')
               /\ stamps_pending' = FALSE
  /\ stamped' = [c \in Cells |-> NoStamp]
  /\ UNCHANGED <<original_image, output_path, x, y, w, h, rect, drawing, background,
                 segmentation_initialized, imwrite_calls, last_write, pointer_ups,
                 stroke_marker>>

\* Mutant of Save: the preview is recomputed before it is written.
Save_recomputes_first ==
  /\ pc = "PhaseB"
  /\ imwrite_calls < MaxSaves
  /\ event' = KeyEvent(KEY_S)
  /\ imwrite_calls' = imwrite_calls + 1
  /\ segmented_image' = composite(original_image, mask)
  /\ \E ok \in BOOLEAN :
       last_write' = [path |-> OutputTarget(output_path), image |-> segmented_image',
                      ok |-> ok, printed |-> "saved"]
  /\ stamps_pending' = FALSE
  /\ UNCHANGED <<pc, original_image, mask, output_path, x, y, w, h, rect, drawing,
                 background, segmentation_initialized, grabCut_calls, pointer_ups,
                 stroke_marker, stamped>>

\* Lines 141-150: s writes the preview as it is, prints the message, and then
\* the preview is recomputed.  cv2.imwrite returns False when it cannot
\* write; the value is not looked at.
Save ==
  /\ pc = "PhaseB"
  /\ imwrite_calls < MaxSaves
  /\ event' = KeyEvent(KEY_S)
  /\ imwrite_calls' = imwrite_calls + 1
  /\ \E ok \in BOOLEAN :
       last_write' = [path |-> OutputTarget(output_path), image |-> segmented_image,
                      ok |-> ok, printed |-> "saved"]
  /\ segmented_image' = composite(original_image, mask)
  /\ stamps_pending' = FALSE
  /\ UNCHANGED <<pc, original_image, mask, output_path, x, y, w, h, rect, drawing,
                 background, segmentation_initialized, grabCut_calls, pointer_ups,
                 stroke_marker, stamped>>

\* Lines 129-150: any other key falls through to the recomputation of the preview.
OtherKeyB(k) ==
  /\ pc = "PhaseB"
  /\ k \notin {KEY_ESC, KEY_SPACE, KEY_ENTER, KEY_S}
  /\ event' = KeyEvent(k)
  /\ segmented_image' = composite(original_image, mask)
  /\ stamps_pending' = FALSE
  /\ UNCHANGED <<pc, original_image, mask, output_path, x, y, w, h, rect, drawing,
                 background, segmentation_initialized, grabCut_calls, imwrite_calls,
                 last_write, pointer_ups, stroke_marker, stamped>>

NextWith(rectPoints, markerPoints) ==
  \/ \E e \in MouseEvents, p \in rectPoints : MouseA(e, p[1], p[2])
  \/ \E e \in MouseEvents, p \in markerPoints : MouseB(e, p[1], p[2])
  \/ \E k \in Keys : IgnoreKeyA(k)
  \/ Abort
  \/ ConfirmRect
  \/ ToggleBrush
  \/ ConfirmScribbles
  \/ Save
  \/ \E k \in Keys : OtherKeyB(k)

\* The session with a few rectangles and scribbles that clip at the image's edges.
Init == InitWith({PathTxt})
Next == NextWith(FewRectPoints, MarkerPoints)
Spec == Init /\ [][Next]_vars

\* The session with every rectangle inside the image and scribbles inside it.
InitRect == InitWith({PathPng})
NextRect == NextWith(RectPoints, FewMarkerPoints)
SpecRect == InitRect /\ [][NextRect]_vars

\* The session with every output path.
InitPaths == InitWith(OutputPaths)
NextPaths == NextWith(FewRectPoints, FewMarkerPoints)
SpecPaths == InitPaths /\ [][NextPaths]_vars

\* ================================================================ claims
\* The preview the specification describes: the source pixel where the mask
\* cell is definite or probable foreground, zero elsewhere.
Preview(img, m) ==
  [c \in Cells |-> IF m[c] \in {GC_FGD, GC_PR_FGD} THEN img[c] ELSE 0]

\* run() waits for the next event.
Waiting == pc \in {"PhaseA", "PhaseB"}

\* The last element of a non-empty sequence.
Last(seq) == seq[Len(seq)]

\* The in-image cells within radius 3 of point p.
DiscCells(p) ==
  {c \in Cells : (c[1] - p[1]) * (c[1] - p[1]) + (c[2] - p[2]) * (c[2] - p[2]) <= Radius * Radius}

\* Points a and b are opposite corners of rectangle r = (x, y, w, h).
OppositeCorners(r, a, b) ==
  /\ r[3] >= 0 /\ r[4] >= 0
  /\ {r[1], r[1] + r[3]} = {a[1], b[1]}
  /\ {r[2], r[2] + r[4]} = {a[2], b[2]}

\* Sequence p ends with sequence ext.
HasSuffix(p, ext) == \E n \in 0 .. Len(p) : SubSeq(p, n + 1, Len(p)) = ext

\* ---------------------------------------------------------------------- C1
C1_Step ==
  /\ (pc = "PhaseA" /\ drawing /\ event'[1] = EVENT_LBUTTONUP)
       => OppositeCorners(<<x', y', w', h'>>, <<x, y>>, <<event'[2], event'[3]>>)
  /\ (pc = "PhaseA" /\ event' = KeyEvent(KEY_ENTER))
       => /\ Len(grabCut_calls') = 1
          /\ grabCut_calls'[1].initialized = FALSE
          /\ grabCut_calls'[1].mode = "GC_INIT_WITH_RECT"
          /\ grabCut_calls'[1].rect = <<x, y, w, h>>
  /\ \A i \in DOMAIN grabCut_calls' : ~grabCut_calls'[i].initialized => i = 1

\* C1: in the first loop, a pointer-up that follows a pointer-down leaves in
\* (x, y, w, h) the rectangle whose opposite corners are the two points, and
\* the Enter key then makes the one engine call of the session that has
\* initialized = false, with exactly that rectangle.
C1_RectangleConfirmedOnce == [][C1_Step]_vars

C1_Witness ==
  /\ pc = "PhaseB"
  /\ event = KeyEvent(KEY_ENTER)
  /\ Len(grabCut_calls) = 1
  /\ ~grabCut_calls[1].initialized
  /\ grabCut_calls[1].rect = <<x, y, w, h>>
  /\ x > 0 /\ w > 0 /\ h > 0

\* ---------------------------------------------------------------------- C2
\* C2 as claimed: whenever the session waits for the next event, the preview
\* is the composite of the original image and the current mask.
C2_PreviewFollowsMask == Waiting => segmented_image = Preview(original_image, mask)

\* C2 as amended: whenever the session waits for the next event and no
\* scribble was stamped since the preview was last computed, the preview is
\* the composite of the original image and the current mask.
C2_PreviewFollowsMaskUnlessStamped ==
  (Waiting /\ ~stamps_pending) => segmented_image = Preview(original_image, mask)

C2_Witness ==
  /\ pc = "PhaseB"
  /\ ~stamps_pending
  /\ Len(grabCut_calls) = 2
  /\ \E c \in Cells : mask[c] = GC_FGD /\ segmented_image[c] = original_image[c]
  /\ \E c \in Cells : mask[c] = GC_PR_FGD /\ segmented_image[c] = original_image[c]

\* ---------------------------------------------------------------------- C3
\* C3 as claimed: the save key writes the composite of the original image and
\* the mask as it is when the key is pressed.
C3_SaveWritesCompositeOfMask ==
  [][(pc = "PhaseB" /\ event' = KeyEvent(KEY_S))
       => /\ imwrite_calls' = imwrite_calls + 1
          /\ last_write'.image = Preview(original_image, mask)]_vars

\* C3 as amended: the save key writes the preview buffer as it is when the
\* key is pressed; that is the composite of the current mask if no scribble
\* was stamped since the preview was last computed.
C3_SaveWritesPreview ==
  [][(pc = "PhaseB" /\ event' = KeyEvent(KEY_S))
       => /\ imwrite_calls' = imwrite_calls + 1
          /\ last_write'.image = segmented_image
          /\ ~stamps_pending => last_write'.image = Preview(original_image, mask)]_vars

C3_Witness ==
  /\ event = KeyEvent(KEY_S)
  /\ last_write # None
  /\ last_write.image # segmented_image
  /\ last_write.image # zeros

\* ---------------------------------------------------------------------- C4
\* C4: when an engine call fails, the session keeps waiting for events and
\* the mask is what it was before the call.
C4_EngineFailureSurvived ==
  [][(Len(grabCut_calls') = Len(grabCut_calls) + 1 /\ Last(grabCut_calls').raised)
       => (pc' \in {"PhaseA", "PhaseB"} /\ mask' = mask)]_vars

\* ---------------------------------------------------------------------- C5
\* C5: Enter pressed in the first loop before any pointer-up leaves the
\* session in the first loop and makes no engine call.
C5_ConfirmNeedsPointerUp ==
  [][(pc = "PhaseA" /\ ~pointer_ups /\ event' = KeyEvent(KEY_ENTER))
       => (pc' = "PhaseA" /\ grabCut_calls' = grabCut_calls)]_vars

\* ---------------------------------------------------------------------- C6
\* C6: Esc pressed in the first loop ends the session with no engine call
\* made, and none is made afterwards.
C6_AbortInPhaseANeverSegments ==
  [][/\ (pc = "PhaseA" /\ event' = KeyEvent(KEY_ESC))
          => (pc' = "done" /\ grabCut_calls' = <<>>)
     /\ pc = "done" => grabCut_calls' = grabCut_calls]_vars

C6_Witness ==
  /\ pc = "done"
  /\ event = KeyEvent(KEY_ESC)
  /\ grabCut_calls = <<>>
  /\ drawing
  /\ ~pointer_ups
  /\ x > 0

\* ---------------------------------------------------------------------- C7
\* C7: Esc pressed in either loop ends the session at that event without a
\* write, and no write follows.
C7_AbortWritesNothing ==
  [][/\ (Waiting /\ event' = KeyEvent(KEY_ESC))
          => (pc' = "done" /\ imwrite_calls' = imwrite_calls /\ last_write' = last_write)
     /\ pc = "done"
          => (pc' = "done" /\ imwrite_calls' = imwrite_calls /\ last_write' = last_write)]_vars

C7_Witness ==
  /\ pc = "done"
  /\ event = KeyEvent(KEY_ESC)
  /\ segmentation_initialized
  /\ imwrite_calls = 1
  /\ stamps_pending

\* ---------------------------------------------------------------------- C8
\* C8: Enter in the second loop makes one engine call with initialized = true,
\* the preview is then the composite of the new mask, and the session stays
\* in the second loop.
C8_ConfirmRefinesAndStays ==
  [][(pc = "PhaseB" /\ event' = KeyEvent(KEY_ENTER))
       => /\ Len(grabCut_calls') = Len(grabCut_calls) + 1
          /\ Last(grabCut_calls').initialized
          /\ segmented_image' = Preview(original_image, mask')
          /\ pc' = "PhaseB"]_vars

\* ---------------------------------------------------------------------- C9
\* C9: every write goes to the configured path when it ends in .png or .jpg
\* and to output.jpg otherwise; out.txt is never written to.
C9_WriteTarget ==
  last_write # None =>
    /\ last_write.path =
         IF \/ HasSuffix(output_path, <<".", "p", "n", "g">>)
            \/ HasSuffix(output_path, <<".", "j", "p", "g">>)
         THEN output_path
         ELSE <<"o", "u", "t", "p", "u", "t", ".", "j", "p", "g">>
    /\ last_write.path # <<"o", "u", "t", ".", "t", "x", "t">>

C9_Witness ==
  /\ last_write # None
  /\ output_path = PathTxt
  /\ last_write.path = DefaultOutput

\* --------------------------------------------------------------------- C10
\* C10: the Space key changes no mask cell, and a stamp whose disc is disjoint
\* from a disc that holds definite foreground leaves that disc as it is.
C10_ToggleRelabelsNothing ==
  [][/\ (pc = "PhaseB" /\ event' = KeyEvent(KEY_SPACE)) => mask' = mask
     /\ \A p \in MarkerPoints :
          (/\ pc = "PhaseB"
           /\ event'[1] \in MouseEvents
           /\ \A c \in DiscCells(p) : mask[c] = GC_FGD
           /\ DiscCells(p) \cap DiscCells(<<event'[2], event'[3]>>) = {})
            => \A c \in DiscCells(p) : mask'[c] = GC_FGD]_vars

C10_Witness ==
  /\ pc = "PhaseB"
  /\ background
  /\ event[1] \in MouseEvents
  /\ \E p \in MarkerPoints :
       /\ DiscCells(p) # {}
       /\ DiscCells(<<event[2], event[3]>>) # {}
       /\ DiscCells(p) \cap DiscCells(<<event[2], event[3]>>) = {}
       /\ \A c \in DiscCells(p) : mask[c] = GC_FGD
       /\ \A c \in DiscCells(<<event[2], event[3]>>) : mask[c] = GC_BGD

\* --------------------------------------------------------------------- C11
\* C11: when the write of a save fails, no success message is printed for
\* that save, and the session stays in the second loop with the mask and the
\* preview as they were.
C11_FailedWriteReported ==
  [][(pc = "PhaseB" /\ event' = KeyEvent(KEY_S) /\ ~last_write'.ok)
       => /\ last_write'.printed # "saved"
          /\ pc' = "PhaseB"
          /\ mask' = mask
          /\ segmented_image' = segmented_image]_vars

\* --------------------------------------------------------------------- C12
\* C12: in every reachable state the mask has one cell for each pixel of the
\* image and every cell holds one of the labels 0, 1, 2, 3; before the first
\* event every cell holds 0.
C12_MaskWellFormed ==
  /\ DOMAIN mask = (0 .. ImgW - 1) \X (0 .. ImgH - 1)
  /\ \A c \in DOMAIN mask : mask[c] \in {0, 1, 2, 3}
  /\ event = None => \A c \in DOMAIN mask : mask[c] = 0

C12_Witness ==
  /\ pc = "PhaseB"
  /\ Len(grabCut_calls) = 2
  /\ event[1] \in MouseEvents
  /\ \E c \in Cells : mask[c] = 1
  /\ \E c \in Cells : mask[c] \in {2, 3}

\* --------------------------------------------------------------------- C13
\* C13: at Enter in the second loop, every cell stamped since the last engine
\* call holds in the mask the label of the last stamp that covered it, and
\* the engine is called on that mask with initialized = true: the stamped
\* labels are definite, so they are still in the array after the call.
C13_EngineGetsScribbles ==
  [][(pc = "PhaseB" /\ event' = KeyEvent(KEY_ENTER))
       => /\ Last(grabCut_calls').initialized
          /\ Last(grabCut_calls').mode = "GC_INIT_WITH_MASK"
          /\ \A c \in Cells :
               stamped[c] # NoStamp
                 => /\ stamped[c] \in {0, 1}
                    /\ mask[c] = stamped[c]
                    /\ mask'[c] = stamped[c]]_vars

C13_Witness ==
  /\ pc = "PhaseB"
  /\ event = KeyEvent(KEY_ENTER)
  /\ Len(grabCut_calls) = 2
  /\ Last(grabCut_calls).initialized
  /\ ~Last(grabCut_calls).raised
  /\ mask[<<0, 0>>] = 1
  /\ \A c \in Cells : stamped[c] = NoStamp

\* --------------------------------------------------------------------- C14
\* C14: once a pointer-up has finalized a rectangle in the first loop, a
\* pointer-down or pointer-move leaves (x, y, w, h) as the pointer-up left
\* them, and Enter passes (x, y, w, h) to the engine.
C14_FinalizedRectangleUsed ==
  [][/\ (pc = "PhaseA" /\ pointer_ups /\ event'[1] \in {EVENT_LBUTTONDOWN, EVENT_MOUSEMOVE})
          => <<x', y', w', h'>> = <<x, y, w, h>>
     /\ (pc = "PhaseA" /\ event' = KeyEvent(KEY_ENTER))
          => Last(grabCut_calls').rect = <<x, y, w, h>>]_vars

\* --------------------------------------------------------------------- C15
\* The label of the brush: 0 for the background brush, 1 for the foreground
\* brush.
BrushLabel == IF background THEN 0 ELSE 1

\* The step is a pointer event of the second loop at point p; it sets the
\* cells of p's disc to the brush's label if stamps holds, it changes no
\* other cell, and the drawing flag follows pointer-down and pointer-up.
PointerStepB(stamps) ==
  /\ pc' = "PhaseB"
  /\ \A c \in Cells :
       mask'[c] = IF stamps /\ c \in DiscCells(<<event'[2], event'[3]>>)
                  THEN BrushLabel
                  ELSE mask[c]
  /\ drawing' = CASE event'[1] = EVENT_LBUTTONDOWN -> TRUE
                  [] event'[1] = EVENT_MOUSEMOVE -> drawing
                  [] event'[1] = EVENT_LBUTTONUP -> FALSE

\* C15 as claimed: in the second loop a pointer-down and a pointer-move made
\* while drawing stamp the disc of radius 3 with the brush's label and change
\* no other cell; a pointer-up clears the drawing flag and changes no cell.
C15_StampsOnDownAndMove ==
  [][(pc = "PhaseB" /\ event'[1] \in MouseEvents)
       => PointerStepB(\/ event'[1] = EVENT_LBUTTONDOWN
                       \/ (event'[1] = EVENT_MOUSEMOVE /\ drawing))]_vars

\* C15 as amended: a pointer-up made while drawing stamps its disc too.
C15_StampsOnDownMoveAndUp ==
  [][(pc = "PhaseB" /\ event'[1] \in MouseEvents)
       => PointerStepB(\/ event'[1] = EVENT_LBUTTONDOWN
                       \/ (event'[1] \in {EVENT_MOUSEMOVE, EVENT_LBUTTONUP} /\ drawing))]_vars

C15_Witness ==
  /\ pc = "PhaseB"
  /\ event[1] = EVENT_LBUTTONUP
  /\ ~drawing
  /\ ~background
  /\ stamps_pending
  /\ DiscCells(<<event[2], event[3]>>) # {}
  /\ \A c \in DiscCells(<<event[2], event[3]>>) : mask[c] = 1 /\ stamped[c] = 1
  /\ \E c \in Cells : mask[c] \in {2, 3}

\* --------------------------------------------------------------------- C16
\* C16: a pointer-move delivered while no stroke or drag is in progress
\* leaves (x, y, w, h) and the drawing flag as they are in the first loop,
\* the mask, the brush and the drawing flag as they are in the second loop,
\* and the session in its loop.
C16_MoveWithoutDownIsNoOp ==
  [][(Waiting /\ ~drawing /\ event'[1] = EVENT_MOUSEMOVE)
       => /\ pc' = pc
          /\ drawing' = drawing
          /\ pc = "PhaseA" => <<x', y', w', h'>> = <<x, y, w, h>>
          /\ pc = "PhaseB" => (mask' = mask /\ background' = background)]_vars

C16_Witness ==
  /\ pc = "PhaseB"
  /\ event[1] = EVENT_MOUSEMOVE
  /\ ~drawing
  /\ ~stamps_pending
  /\ \E c \in DiscCells(<<event[2], event[3]>>) : mask[c] \in {2, 3}

\* --------------------------------------------------------------------- C17
\* C17: in the second loop no event changes rect or (x, y, w, h); rect is the
\* rectangle of the first engine call, and every later call gets it too.
C17_RectangleFrozen ==
  [][pc = "PhaseB"
       => /\ rect' = rect
          /\ <<x', y', w', h'>> = <<x, y, w, h>>
          /\ \A i \in DOMAIN grabCut_calls' : grabCut_calls'[i].rect = rect]_vars

C17_Witness ==
  /\ pc = "PhaseB"
  /\ Len(grabCut_calls) = 2
  /\ grabCut_calls[1].rect = rect
  /\ grabCut_calls[2].rect = rect
  /\ rect = <<x, y, w, h>>
  /\ imwrite_calls = 1
  /\ ~background
  /\ \E c \in Cells : mask[c] = 1

\* --------------------------------------------------------------------- C18
\* C18 as claimed: every stamp of a stroke, after its pointer-down, carries
\* the label the brush had at the stroke's pointer-down.
C18_StrokeKeepsItsLabel ==
  [][(pc = "PhaseB" /\ drawing /\ event'[1] \in {EVENT_MOUSEMOVE, EVENT_LBUTTONUP})
       => \A c \in DiscCells(<<event'[2], event'[3]>>) : mask'[c] = stroke_marker]_vars

\* C18 as amended: Space flips the brush whether or not a stroke is in
\* progress, and every stamp carries the label of the brush at the time of
\* the stamp, so the stamps of a stroke that follow a Space carry the new
\* label.
C18_StampCarriesCurrentBrush ==
  [][/\ (pc = "PhaseB" /\ event' = KeyEvent(KEY_SPACE))
          => (background' = ~background /\ drawing' = drawing)
     /\ (pc = "PhaseB" /\ drawing /\ event'[1] \in {EVENT_MOUSEMOVE, EVENT_LBUTTONUP})
          => \A c \in DiscCells(<<event'[2], event'[3]>>) :
               mask'[c] = IF background THEN 0 ELSE 1]_vars

C18_Witness ==
  /\ pc = "PhaseB"
  /\ drawing
  /\ event[1] = EVENT_MOUSEMOVE
  /\ stroke_marker = 0
  /\ ~background
  /\ DiscCells(<<event[2], event[3]>>) # {}
  /\ \A c \in DiscCells(<<event[2], event[3]>>) : mask[c] = 1
  /\ \E c \in Cells : mask[c] = 0 /\ stamped[c] = 0

\* --------------------------------------------------------------------- C19
\* C19: in the first loop a pointer-up at (x2, y2) that ends a drag begun by
\* a pointer-down at (x1, y1) leaves
\* (min(x1, x2), min(y1, y2), |x1 - x2|, |y1 - y2|) in (x, y, w, h), and w
\* and h are never negative.
C19_NormalizedRectangle ==
  /\ [](w >= 0 /\ h >= 0)
  /\ [][(pc = "PhaseA" /\ drawing /\ event'[1] = EVENT_LBUTTONUP)
          => LET x1 == x
                 y1 == y
                 x2 == event'[2]
                 y2 == event'[3]
             IN  /\ x' = IF x1 <= x2 THEN x1 ELSE x2
                 /\ y' = IF y1 <= y2 THEN y1 ELSE y2
                 /\ w' = IF x1 <= x2 THEN x2 - x1 ELSE x1 - x2
                 /\ h' = IF y1 <= y2 THEN y2 - y1 ELSE y1 - y2]_vars

C19_Witness ==
  /\ pc = "PhaseA"
  /\ event = <<EVENT_LBUTTONUP, 0, 0>>
  /\ ~drawing
  /\ <<x, y>> = <<0, 0>>
  /\ w = ImgW
  /\ h = ImgH

\* --------------------------------------------------------------------- C20
\* C20: the drawing flag is false when the second loop is entered, whatever
\* it was when Enter was pressed; in the second loop it becomes true only at
\* a pointer-down, and while it is false no pointer-move or pointer-up
\* changes the mask.
C20_DragDoesNotLeak ==
  [][/\ (pc = "PhaseA" /\ pc' = "PhaseB") => ~drawing'
     /\ (pc' = "PhaseB" /\ drawing' /\ ~(pc = "PhaseB" /\ drawing))
          => (pc = "PhaseB" /\ event'[1] = EVENT_LBUTTONDOWN)
     /\ (pc = "PhaseB" /\ ~drawing /\ event'[1] \in {EVENT_MOUSEMOVE, EVENT_LBUTTONUP})
          => (mask' = mask /\ ~drawing')]_vars

\* The rectangle sticks out of the image on the right, which no finished drag
\* leaves: Enter was pressed after a pointer-down that no pointer-up
\* followed.  The pointer-move at (0, 0) stamped nothing.
C20_Witness ==
  /\ pc = "PhaseB"
  /\ rect[1] + rect[3] > ImgW
  /\ event = <<EVENT_MOUSEMOVE, 0, 0>>
  /\ ~drawing
  /\ \E c \in DiscCells(<<0, 0>>) : mask[c] \in {2, 3}
  /\ \A c \in Cells : stamped[c] = NoStamp

====
